---------------------------- MODULE Spec2Model ----------------------------
(***************************************************************************)
(* Two-tier caching of the Unleash Next.js SDK:                            *)
(*   getDefinitions  (lib/src/getDefinitions.ts)  conditional GET + ETag   *)
(*   flag            (lib/src/flag.ts)            evaluation-cache reuse   *)
(* Every asynchronous call is a little process; the awaits of the code are *)
(* the points where another call may run.                                  *)
(***************************************************************************)
EXTENDS Naturals, Sequences, FiniteSets, TLC

(***************************************************************************)
(* Bounds of the model.                                                    *)
(***************************************************************************)
\* Calls started when two callers overlap, and when one caller runs alone.
MaxCalls == 2
MaxSequentialCalls == 3
\* Calls made before the server stops changing, and calls made after.
MaxHistoryCalls == 2
MaxQuietCalls == 3

\* Two callers run concurrently; a call takes the first free slot.
Slots == {"s1", "s2"}

(***************************************************************************)
(* Values.  "" stands for every falsy string-or-undefined of the code      *)
(* (undefined, null, ""), which the code only ever tests for truthiness.   *)
(***************************************************************************)
NoEtag == ""
SourceNames == {"A", "B"}

\* A definitions payload is an object: ref is its identity (===), ver its
\* content, origin the logical source whose server produced it; status and
\* tag are the status and the ETag header of the response it was the body of.
NoDefs == [ref |-> 0, ver |-> 0, origin |-> "", status |-> 0, tag |-> NoEtag]
Payload(r, v, s) == [ref |-> r, ver |-> v, origin |-> s, status |-> 0, tag |-> NoEtag]
Delivered(payload, status, etag) == [payload EXCEPT !.status = status, !.tag = etag]

NoEntry == [etag |-> NoEtag, definitions |-> NoDefs]

defaultUrl == "http://localhost:4242/api/client/features"
defaultToken == "default:development.unleash-insecure-api-token"

\* Resolved configurations (the merge of getDefaultConfig() and the caller's
\* config).  "" is an absent token / instanceId.
BaseConfig ==
    [url |-> defaultUrl, token |-> "token-1", instanceId |-> "", appName |-> "nextjs"]
OtherConfigs ==
    { [BaseConfig EXCEPT !.url = "http://example.com/api/client/features"],
      [BaseConfig EXCEPT !.token = "token-2"],
      [BaseConfig EXCEPT !.token = ""],
      [BaseConfig EXCEPT !.instanceId = "instance-1"],
      [BaseConfig EXCEPT !.token = defaultToken, !.instanceId = "instance-1"],
      [BaseConfig EXCEPT !.token = "", !.instanceId = "instance-1"],
      [BaseConfig EXCEPT !.appName = "my-awesome-app"] }

\* Contexts are objects with insertion-ordered fields.
Contexts ==
    { << <<"userId", "123">>, <<"sessionId", "s1">> >>,
      << <<"sessionId", "s1">>, <<"userId", "123">> >>,
      << <<"userId", "456">>, <<"sessionId", "s1">> >> }
EmptyContext == << >>

Fields(context) == { context[i] : i \in 1..Len(context) }

(***************************************************************************)
(* JSON.stringify of a flat object of strings.                             *)
(***************************************************************************)
Quote(s) == "\"" \o s \o "\""

RECURSIVE Members(_)
Members(pairs) ==
    IF pairs = << >> THEN ""
    ELSE Quote(pairs[1][1]) \o ":" \o Quote(pairs[1][2])
         \o (IF Len(pairs) > 1 THEN "," ELSE "") \o Members(Tail(pairs))

Stringify(pairs) == "{" \o Members(pairs) \o "}"

(***************************************************************************)
(* getDefinitions.ts: request headers and cache key.                       *)
(***************************************************************************)
HeaderOr(headers, name) ==
    IF name \in DOMAIN headers /\ headers[name] # "" THEN headers[name] ELSE ""

sendAuthorizationToken(cfg) == cfg.instanceId = "" \/ cfg.token # defaultToken

\* fetchOptions.headers of the caller.  Its type is that of RequestInit
\* (lines 9-14): absent, a plain object, a Headers instance, or an array of
\* [name, value] pairs; list holds the headers the caller put in it.
HeadersInit(form, list) == [form |-> form, list |-> list]
NoHeaders == HeadersInit("none", << >>)
IfNoneMatch(value) == HeadersInit("object", << <<"if-none-match", value>> >>)
IfNoneMatchCapitalised(value) == HeadersInit("object", << <<"If-None-Match", value>> >>)
IfNoneMatchInstance(value) == HeadersInit("Headers", << <<"if-none-match", value>> >>)
IfNoneMatchPairs(value) == HeadersInit("array", << <<"if-none-match", value>> >>)

\* line 117: key.toLowerCase(), on the header names in use.
toLowerCase(name) == IF name = "If-None-Match" THEN "if-none-match" ELSE name

\* The headers a list of pairs holds, a later pair replacing an earlier one.
PairsMap(list) ==
    [n \in {list[i][1] : i \in DOMAIN list} |->
        list[CHOOSE i \in DOMAIN list :
                 /\ list[i][1] = n
                 /\ \A j \in DOMAIN list : list[j][1] = n => j <= i][2]]

\* The headers the caller supplied, by lower-case name, whatever the form.
Supplied(fetchHeaders) ==
    PairsMap([i \in DOMAIN fetchHeaders.list |->
                 << toLowerCase(fetchHeaders.list[i][1]), fetchHeaders.list[i][2] >>])

\* line 115: Object.entries(fetchOptions.headers), with String(value) of line
\* 117.  A plain object yields its properties; a Headers instance has no own
\* enumerable property; an array yields its indices, each with its pair
\* joined by a comma.
ObjectEntries(fetchHeaders) ==
    CASE fetchHeaders.form = "object" -> PairsMap(fetchHeaders.list)
      [] fetchHeaders.form = "array" ->
            [k \in {ToString(i - 1) : i \in DOMAIN fetchHeaders.list} |->
                LET i == CHOOSE i \in DOMAIN fetchHeaders.list : ToString(i - 1) = k
                IN  fetchHeaders.list[i][1] \o "," \o fetchHeaders.list[i][2]]
      [] OTHER -> << >>

\* lines 114-120: each entry is copied under its lower-cased key (the values
\* are strings, never null).
CallerHeaders(fetchHeaders) ==
    LET entries == ObjectEntries(fetchHeaders)
    IN  [n \in {toLowerCase(k) : k \in DOMAIN entries} |->
            entries[CHOOSE k \in DOMAIN entries : toLowerCase(k) = n]]

\* headers of lines 98-120; the caller's headers override the computed ones.
RequestHeaders(cfg, fetchHeaders) ==
    LET base == ("user-agent" :> cfg.appName) @@ ("unleash-appname" :> cfg.appName)
        auth == IF sendAuthorizationToken(cfg) /\ cfg.token # ""
                THEN ("authorization" :> cfg.token) @@ base ELSE base
        inst == IF cfg.instanceId # ""
                THEN ("unleash-instanceid" :> cfg.instanceId) @@ auth ELSE auth
    IN  CallerHeaders(fetchHeaders) @@ inst

\* A key that leaves the credential out.
getCacheKeyNoCredential(url, headers) ==
    Stringify(<< <<"url", url>>,
                 <<"instanceId", HeaderOr(headers, "unleash-instanceid")>>,
                 <<"appName", HeaderOr(headers, "unleash-appname")>> >>)

getCacheKey(url, headers) ==
    Stringify(<< <<"url", url>>,
                 <<"authorization", HeaderOr(headers, "authorization")>>,
                 <<"instanceId", HeaderOr(headers, "unleash-instanceid")>>,
                 <<"appName", HeaderOr(headers, "unleash-appname")>> >>)

CacheKeyOf(cfg) == getCacheKey(cfg.url, RequestHeaders(cfg, NoHeaders))

\* The identity a request presents to the server.
Identity(cfg) ==
    LET h == RequestHeaders(cfg, NoHeaders)
    IN  << cfg.url, HeaderOr(h, "authorization"), HeaderOr(h, "unleash-instanceid"),
           HeaderOr(h, "unleash-appname") >>


(***************************************************************************)
(* flag.ts: context key, external collaborators, evaluation cache.         *)
(***************************************************************************)
NoKey == ""

\* A canonical serialization: sessionId first, whatever the insertion order.
serializeContextSorted(context) ==
    Stringify(SelectSeq(context, LAMBDA p : p[1] = "sessionId")
              \o SelectSeq(context, LAMBDA p : p[1] # "sessionId"))

\* Order-sensitive: JSON.stringify keeps the insertion order of the fields.
serializeContext(context) == Stringify(context)

\* The evaluator (./evaluateFlags) is an external pure function of the
\* definitions and of the context's fields; its toggle list is kept abstract
\* as the pair it was computed from.
NoToggles == [from |-> NoDefs, ctx |-> {}]
evaluateFlags(definitions, context) == [from |-> definitions, ctx |-> Fields(context)]

\* The toggle facade (./flagsClient): lookups determined by the toggle list.
flagsClient(toggles) == [enabled |-> toggles.from.ver = 1, variant |-> toggles]

EmptyVariant == NoToggles
NoError == ""
TransportError == "TypeError: fetch failed"
StaleCacheError ==
    "Unleash: Received 304 Not Modified but no cached definitions are available."
ParseError == "SyntaxError: Unexpected end of JSON input"
EvaluationError == "Error: evaluateFlags failed"

EmptyEvaluationCache ==
    [etag |-> NoEtag, definitions |-> NoDefs, contextKey |-> NoKey, toggles |-> NoToggles]

createEvaluationCache(initial) ==
    [etag |-> initial.etag, definitions |-> initial.definitions,
     contextKey |-> initial.contextKey, toggles |-> initial.toggles]

(***************************************************************************)
(* State.                                                                  *)
(***************************************************************************)
VARIABLES
    env,              \* the callers: their sources, contexts, headers, slots
    definitionsCache, \* Map<cacheKey, CacheEntry>
    evaluationCache,  \* the evaluation cache shared by the flag calls
    calls,            \* the asynchronous calls, each with its position
    started,          \* the number of operations (calls, resets) started
    lastResponse,     \* per cache key: the last response a fetch finished with
    evalWriter,       \* whether a flag call wrote the evaluation cache, the
                      \* calls in flight since it did, and its context
    issued,           \* the request the step just taken sent
    returned          \* what the step just taken delivered to its caller

vars == << env, definitionsCache, evaluationCache, calls, started, lastResponse,
           evalWriter, issued, returned >>

NoResponse == [class |-> "none", etag |-> NoEtag, evicted |-> FALSE]
OtherResponse == [class |-> "other", etag |-> NoEtag, evicted |-> FALSE]

NoWriter == [written |-> FALSE, during |-> {}, ctx |-> EmptyContext]

\* pc: idle | fetch (await fetch) | json (await response.json()) |
\*     resume (flag's await resolved) | caught (flag's await rejected)
IdleCall ==
    [pc |-> "idle", kind |-> "", src |-> "", cacheKey |-> "",
     ctx |-> EmptyContext, inm |-> "", cached |-> NoEntry, status |-> 0,
     respEtag |-> NoEtag, ver |-> 0, definitions |-> NoDefs, error |-> NoError]

NoRequest ==
    [slot |-> "", kind |-> "", src |-> "", cacheKey |-> "", fetchHeaders |-> NoHeaders,
     explicitInm |-> "", headers |-> << >>, inm |-> "", cached |-> NoEntry,
     prior |-> NoResponse]

NoResult == [enabled |-> FALSE, variant |-> EmptyVariant, error |-> NoError]

\* op is the operation that ended: "getDefinitions" or "flag".
NoReturn ==
    [op |-> "", slot |-> "", kind |-> "", src |-> "", cacheKey |-> "",
     ctx |-> EmptyContext, cacheBefore |-> << >>,
     inm |-> "", cached |-> NoEntry, status |-> 0, respEtag |-> NoEtag,
     parsed |-> FALSE, threw |-> FALSE, error |-> NoError, failure |-> NoError,
     definitions |-> NoDefs, evaluated |-> FALSE,
     seenEtag |-> NoEtag, seenDefs |-> NoDefs,
     evalBefore |-> EmptyEvaluationCache, storedCtx |-> EmptyContext,
     sequential |-> FALSE, stored |-> FALSE,
     result |-> NoResult]

InFlight == { c \in Slots : calls[c].pc # "idle" }

\* Object identity: a new object differs from every object still referenced.
LiveRefs ==
    { definitionsCache[k].definitions.ref : k \in DOMAIN definitionsCache }
    \cup { evaluationCache.definitions.ref, evaluationCache.toggles.from.ref }
    \cup { calls[c].cached.definitions.ref : c \in Slots }
    \cup { calls[c].definitions.ref : c \in Slots }
NewRef == CHOOSE r \in 1..(Cardinality(LiveRefs) + 1) :
              /\ r \notin LiveRefs
              /\ \A q \in 1..(r - 1) : q \in LiveRefs

\* Map.get(key): undefined is the entry with neither field.
Lookup(cache, key) == IF key \in DOMAIN cache THEN cache[key] ELSE NoEntry
MapSet(cache, key, entry) ==
    [k \in DOMAIN cache \cup {key} |-> IF k = key THEN entry ELSE cache[k]]
MapDelete(cache, key) == [k \in DOMAIN cache \ {key} |-> cache[k]]
EmptyMap == [k \in {} |-> NoEntry]

(***************************************************************************)
(* getDefinitions.ts, lines 122-157, as functions of what each step reads. *)
(***************************************************************************)
\* A fetcher that prefers the cached ETag to the caller's header.
ConditionalHeaderCacheFirst(headers, cached) ==
    IF cached.etag # NoEtag THEN cached.etag ELSE HeaderOr(headers, "if-none-match")

\* A fetcher that only ever forwards the caller's own conditional header.
ConditionalHeaderExplicitOnly(headers, cached) == HeaderOr(headers, "if-none-match")

\* lines 125-127: the if-none-match header the request carries.
ConditionalHeader(headers, cached) ==
    IF HeaderOr(headers, "if-none-match") = "" /\ cached.etag # NoEtag
    THEN cached.etag
    ELSE HeaderOr(headers, "if-none-match")

\* A 304 answered with a copy of the cached payload.
NotModifiedCopy(cached) ==
    IF cached.definitions # NoDefs
    THEN [threw |-> FALSE, error |-> NoError,
          definitions |-> [cached.definitions EXCEPT !.ref = @ + 1]]
    ELSE [threw |-> TRUE, error |-> StaleCacheError, definitions |-> NoDefs]

\* A 304 that tolerates an empty cache and hands back whatever it holds.
NotModifiedSilent(cached) ==
    [threw |-> FALSE, error |-> NoError, definitions |-> cached.definitions]

\* lines 125-132: the headers of the request as sent.
SentHeaders(headers, cached) ==
    LET value == ConditionalHeader(headers, cached)
    IN  IF value # HeaderOr(headers, "if-none-match")
        THEN ("if-none-match" :> value) @@ headers
        ELSE headers

\* lines 134-141: a 304 answers from the entry looked up before the request.
NotModified(cached) ==
    IF cached.definitions # NoDefs
    THEN [threw |-> FALSE, error |-> NoError, definitions |-> cached.definitions]
    ELSE [threw |-> TRUE, error |-> StaleCacheError, definitions |-> NoDefs]

ResponseOk(status) == status >= 200 /\ status < 300

\* A store that refreshes the etag of an entry and keeps its payload.
StoreResponseKeepPayload(cache, key, status, etag, definitions) ==
    IF ResponseOk(status)
    THEN IF etag # NoEtag
         THEN MapSet(cache, key,
                     [etag |-> etag,
                      definitions |-> IF key \in DOMAIN cache
                                      THEN cache[key].definitions ELSE definitions])
         ELSE MapDelete(cache, key)
    ELSE cache

\* A store that never replaces an entry: the first writer wins.
StoreResponseFirstWins(cache, key, status, etag, definitions) ==
    IF ResponseOk(status)
    THEN IF etag # NoEtag
         THEN IF key \in DOMAIN cache THEN cache
              ELSE MapSet(cache, key, [etag |-> etag, definitions |-> definitions])
         ELSE MapDelete(cache, key)
    ELSE cache

\* A store that does not look at the status.
StoreResponseAnyStatus(cache, key, status, etag, definitions) ==
    IF etag # NoEtag
    THEN MapSet(cache, key, [etag |-> etag, definitions |-> definitions])
    ELSE MapDelete(cache, key)

\* A store that keeps the old entry when the response has no ETag.
StoreResponseKeep(cache, key, status, etag, definitions) ==
    IF ResponseOk(status) /\ etag # NoEtag
    THEN MapSet(cache, key, [etag |-> etag, definitions |-> definitions])
    ELSE cache

\* lines 145-155: the cache after a parsed response.
StoreResponse(cache, key, status, etag, definitions) ==
    IF ResponseOk(status)
    THEN IF etag # NoEtag
         THEN MapSet(cache, key, [etag |-> etag, definitions |-> definitions])
         ELSE MapDelete(cache, key)
    ELSE cache

\* What a finished response leaves in lastResponse.
ResponseClass(cache, key, status, etag) ==
    IF ResponseOk(status)
    THEN IF etag # NoEtag
         THEN [class |-> "etag", etag |-> etag, evicted |-> FALSE]
         ELSE [class |-> "noetag", etag |-> NoEtag, evicted |-> key \in DOMAIN cache]
    ELSE [class |-> "other", etag |-> NoEtag, evicted |-> FALSE]

(***************************************************************************)
(* flag.ts, lines 71-108.                                                  *)
(***************************************************************************)
\* definitionsCache.etag / definitionsCache.definitions as flag reads them:
\* the definitions cache's current state for the call's source.
CacheEtag(cache, key) == Lookup(cache, key).etag
CacheDefinitions(cache, key) == Lookup(cache, key).definitions

\* A freshness signal that always compares the payload objects.
definitionsMatchByReference(ec, dcEtag, dcDefinitions) == ec.definitions = dcDefinitions

\* A freshness signal that never reports a change.
definitionsMatchAlways(ec, dcEtag, dcDefinitions) == TRUE

\* A freshness signal that falls back to comparing content, not identity.
definitionsMatchByContent(ec, dcEtag, dcDefinitions) ==
    IF ec.etag # NoEtag /\ dcEtag # NoEtag
    THEN ec.etag = dcEtag
    ELSE ec.definitions.ver = dcDefinitions.ver

\* lines 73-76
definitionsMatch(ec, dcEtag, dcDefinitions) ==
    IF ec.etag # NoEtag /\ dcEtag # NoEtag
    THEN ec.etag = dcEtag
    ELSE ec.definitions = dcDefinitions

\* A flag that evaluates on every call.
neverReuse(ec, contextKey, match) == FALSE

\* lines 80-84
canReuse(ec, contextKey, match) ==
    ec.toggles # NoToggles /\ ec.contextKey = contextKey /\ match

\* A flag that records the context key before it evaluates.
flagEvaluateKeyFirst(ec, definitions, context, dcEtag, dcDefinitions, evaluatorThrows) ==
    LET contextKey == serializeContext(context)
        match == definitionsMatch(ec, dcEtag, dcDefinitions)
    IN  IF canReuse(ec, contextKey, match)
        THEN [cache |-> ec, evaluated |-> FALSE, error |-> NoError,
              toggles |-> ec.toggles]
        ELSE IF evaluatorThrows
        THEN [cache |-> [ec EXCEPT !.contextKey = contextKey], evaluated |-> TRUE,
              error |-> EvaluationError, toggles |-> NoToggles]
        ELSE LET toggles == evaluateFlags(definitions, context)
             IN  [cache |-> [toggles |-> toggles, contextKey |-> contextKey,
                             definitions |-> IF dcDefinitions # NoDefs
                                             THEN dcDefinitions ELSE definitions,
                             etag |-> dcEtag],
                  evaluated |-> TRUE, error |-> NoError, toggles |-> toggles]

\* lines 71-94: the evaluation cache and the toggles after the decision.
flagEvaluate(ec, definitions, context, dcEtag, dcDefinitions, evaluatorThrows) ==
    LET contextKey == serializeContext(context)
        match == definitionsMatch(ec, dcEtag, dcDefinitions)
    IN  IF canReuse(ec, contextKey, match)
        THEN [cache |-> ec, evaluated |-> FALSE, error |-> NoError,
              toggles |-> ec.toggles]
        ELSE IF evaluatorThrows
        THEN [cache |-> ec, evaluated |-> TRUE, error |-> EvaluationError,
              toggles |-> NoToggles]
        ELSE LET toggles == evaluateFlags(definitions, context)
             IN  [cache |-> [toggles |-> toggles, contextKey |-> contextKey,
                             definitions |-> IF dcDefinitions # NoDefs
                                             THEN dcDefinitions ELSE definitions,
                             etag |-> dcEtag],
                  evaluated |-> TRUE, error |-> NoError, toggles |-> toggles]

\* lines 96-101
flagResult(toggles) ==
    [threw |-> FALSE,
     result |-> [enabled |-> flagsClient(toggles).enabled,
                 variant |-> flagsClient(toggles).variant, error |-> NoError]]

\* A boundary that lets the error escape.
flagCatchRethrow(error) ==
    [threw |-> TRUE, result |-> [enabled |-> FALSE, variant |-> EmptyVariant, error |-> NoError]]

\* lines 102-108
flagCatch(error) ==
    [threw |-> FALSE,
     result |-> [enabled |-> FALSE, variant |-> EmptyVariant, error |-> error]]

(***************************************************************************)
(* Initial states: the caches as constructed (new Map(), and                *)
(* createEvaluationCache() without an initial value).                      *)
(***************************************************************************)
ExplicitHeaders ==
    { NoHeaders, IfNoneMatch(""), IfNoneMatch("etag-1"), IfNoneMatchCapitalised("etag-1"),
      IfNoneMatchInstance("etag-1"), IfNoneMatchPairs("etag-1") }

\* The ETag header of a response.
ResponseEtags == {NoEtag, "etag-1", "etag-2"}

\* What a server may answer with a body: status, ETag header, body content.
Responses ==
    { [status |-> 200, etag |-> "etag-1", ver |-> 1],
      [status |-> 200, etag |-> "etag-2", ver |-> 2],
      [status |-> 200, etag |-> NoEtag, ver |-> 1],
      [status |-> 500, etag |-> NoEtag, ver |-> 2] }

SourcesWith(cfg) == [s \in SourceNames |-> IF s = "A" THEN BaseConfig ELSE cfg]

InitCalls ==
    /\ calls = [c \in Slots |-> IdleCall]
    /\ started = 0
    /\ lastResponse = EmptyMap
    /\ evalWriter = NoWriter
    /\ issued = NoRequest
    /\ returned = NoReturn

\* One source; two concurrent callers; every context and header.
Init ==
    /\ env = [sources |-> SourcesWith(BaseConfig), names |-> {"A"},
              contexts |-> Contexts, headers |-> ExplicitHeaders,
              slots |-> Slots, limit |-> MaxCalls]
    /\ definitionsCache = EmptyMap
    /\ evaluationCache = EmptyEvaluationCache
    /\ InitCalls

\* One caller: each call ends before the next starts.
InitSequential ==
    /\ env = [sources |-> SourcesWith(BaseConfig), names |-> {"A"},
              contexts |-> Contexts, headers |-> ExplicitHeaders,
              slots |-> {"s1"}, limit |-> MaxSequentialCalls]
    /\ definitionsCache = EmptyMap
    /\ evaluationCache = EmptyEvaluationCache
    /\ InitCalls

\* Two sources sharing the caches; the second differs from the first in one
\* field of its configuration.
SeedContext == CHOOSE x \in Contexts : x[1] = <<"userId", "123">>
OneFieldApart ==
    { cfg \in OtherConfigs :
        Cardinality({ f \in DOMAIN cfg : cfg[f] # BaseConfig[f] }) = 1 /\ cfg.token # "" }
InitSources ==
    /\ \E cfg \in OneFieldApart :
           env = [sources |-> SourcesWith(cfg), names |-> SourceNames,
                  contexts |-> {SeedContext},
                  headers |-> {NoHeaders}, slots |-> Slots, limit |-> MaxCalls]
    /\ definitionsCache = EmptyMap
    /\ evaluationCache = EmptyEvaluationCache
    /\ InitCalls

\* Caches handed in pre-seeded by the caller (createEvaluationCache(initial),
\* createDefinitionsCache(initial)); a source that serves no ETag.
SeedDefinitions == Payload(1, 1, "A")
SeedCopy == Payload(2, 1, "A")
EvaluationSeeds ==
    { EmptyEvaluationCache } \cup
    { [etag |-> NoEtag, definitions |-> d, contextKey |-> serializeContext(SeedContext),
       toggles |-> evaluateFlags(d, SeedContext)] : d \in {SeedDefinitions, SeedCopy} }
createDefinitionsCache(initial) ==
    IF initial = NoEntry THEN EmptyMap ELSE MapSet(EmptyMap, CacheKeyOf(BaseConfig), initial)

InitSeeded ==
    /\ env = [sources |-> SourcesWith(BaseConfig), names |-> {"A"},
              contexts |-> {x \in Contexts : Fields(x) = Fields(SeedContext)},
              headers |-> {NoHeaders}, slots |-> Slots, limit |-> MaxCalls]
    /\ \E initial \in {NoEntry, [etag |-> NoEtag, definitions |-> SeedDefinitions]} :
           definitionsCache = createDefinitionsCache(initial)
    /\ \E initial \in EvaluationSeeds : evaluationCache = createEvaluationCache(initial)
    /\ InitCalls

(***************************************************************************)
(* Steps of a call.                                                        *)
(***************************************************************************)
KeyOf(call) == call.cacheKey

\* The report of an operation that ends, from its call's record.
Report(op, c, call) ==
    [NoReturn EXCEPT !.op = op, !.slot = c, !.kind = call.kind, !.src = call.src,
                     !.cacheKey = KeyOf(call), !.ctx = call.ctx, !.inm = call.inm,
                     !.cached = call.cached, !.status = call.status,
                     !.respEtag = call.respEtag, !.cacheBefore = definitionsCache]

\* getDefinitions settles with out = [threw, error, definitions].  A direct
\* call ends there; in a flag call the await of line 65 resolves or rejects.
Settle(c, call, out, parsed) ==
    /\ returned' = [Report("getDefinitions", c, call) EXCEPT
                       !.parsed = parsed, !.threw = out.threw, !.error = out.error,
                       !.failure = out.error, !.definitions = out.definitions]
    /\ issued' = NoRequest
    /\ calls' = [calls EXCEPT ![c] =
           IF call.kind = "flag"
           THEN [IdleCall EXCEPT !.pc = IF out.threw THEN "caught" ELSE "resume",
                                 !.kind = call.kind, !.src = call.src,
                                 !.cacheKey = call.cacheKey,
                                 !.ctx = call.ctx, !.definitions = out.definitions,
                                 !.error = out.error]
           ELSE IdleCall]

\* lines 77-132 (and flag.ts 42-69 before them): everything up to `await fetch`.
Start(c, kind, s, context, fetchHeaders) ==
    /\ c \in env.slots /\ s \in env.names /\ fetchHeaders \in env.headers
    /\ calls[c].pc = "idle"
    /\ IF c = "s1" THEN TRUE ELSE calls["s1"].pc # "idle"
    /\ started < env.limit
    /\ started' = started + 1
    /\ LET cfg == env.sources[s]
           headers == RequestHeaders(cfg, fetchHeaders)
           cacheKey == getCacheKey(cfg.url, headers)
           cached == Lookup(definitionsCache, cacheKey)
           inm == ConditionalHeader(headers, cached)
       IN  /\ calls' = [calls EXCEPT ![c] =
                  [IdleCall EXCEPT !.pc = "fetch", !.kind = kind, !.src = s,
                                   !.cacheKey = cacheKey, !.ctx = context,
                                   !.inm = inm, !.cached = cached]]
           /\ issued' = [slot |-> c, kind |-> kind, src |-> s, cacheKey |-> cacheKey,
                         fetchHeaders |-> fetchHeaders,
                         explicitInm |-> HeaderOr(Supplied(fetchHeaders), "if-none-match"),
                         headers |-> SentHeaders(headers, cached),
                         inm |-> inm, cached |-> cached,
                         prior |-> IF cacheKey \in DOMAIN lastResponse
                                   THEN lastResponse[cacheKey] ELSE NoResponse]
    /\ returned' = NoReturn
    /\ evalWriter' = [evalWriter EXCEPT !.during = @ \ {c}]
    /\ UNCHANGED << env, definitionsCache, evaluationCache, lastResponse >>

StartGetDefinitions(c, s, fetchHeaders) ==
    Start(c, "getDefinitions", s, EmptyContext, fetchHeaders)

StartFlag(c, s, context, fetchHeaders) ==
    /\ context \in env.contexts
    /\ Start(c, "flag", s, context, fetchHeaders)

\* A fetcher that answers a transport failure from its cache.
FetchRejectSwallowed(c) ==
    /\ calls[c].pc = "fetch"
    /\ Settle(c, calls[c],
              [threw |-> FALSE, error |-> NoError,
               definitions |-> calls[c].cached.definitions], FALSE)
    /\ lastResponse' = MapSet(lastResponse, KeyOf(calls[c]), OtherResponse)
    /\ UNCHANGED << env, definitionsCache, evaluationCache, evalWriter, started >>

\* line 129: fetch rejects (transport failure).
FetchReject(c) ==
    /\ calls[c].pc = "fetch"
    /\ Settle(c, calls[c],
              [threw |-> TRUE, error |-> TransportError, definitions |-> NoDefs], FALSE)
    /\ lastResponse' = MapSet(lastResponse, KeyOf(calls[c]), OtherResponse)
    /\ UNCHANGED << env, definitionsCache, evaluationCache, evalWriter, started >>

\* lines 134-141: the response is a 304; its ETag header, if any, is not read.
Respond304(c, etag) ==
    /\ calls[c].pc = "fetch"
    /\ Settle(c, [calls[c] EXCEPT !.status = 304, !.respEtag = etag],
              NotModified(calls[c].cached), FALSE)
    /\ lastResponse' = MapSet(lastResponse, KeyOf(calls[c]), OtherResponse)
    /\ UNCHANGED << env, definitionsCache, evaluationCache, evalWriter, started >>

\* line 143: any other response; the call awaits response.json().
RespondBody(c, response) ==
    /\ calls[c].pc = "fetch"
    /\ calls' = [calls EXCEPT ![c] =
                    [@ EXCEPT !.pc = "json", !.status = response.status,
                              !.respEtag = response.etag, !.ver = response.ver]]
    /\ returned' = NoReturn
    /\ issued' = NoRequest
    /\ UNCHANGED << env, definitionsCache, evaluationCache, lastResponse,
                    evalWriter, started >>

\* line 143: response.json() rejects.
JsonReject(c) ==
    /\ calls[c].pc = "json"
    /\ Settle(c, calls[c],
              [threw |-> TRUE, error |-> ParseError, definitions |-> NoDefs], TRUE)
    /\ lastResponse' = MapSet(lastResponse, KeyOf(calls[c]), OtherResponse)
    /\ UNCHANGED << env, definitionsCache, evaluationCache, evalWriter, started >>

\* lines 143-157: the body is parsed into a new object, the cache is written.
JsonResolve(c) ==
    /\ calls[c].pc = "json"
    /\ LET call == calls[c]
           definitions == Delivered(Payload(NewRef, call.ver, call.src),
                                    call.status, call.respEtag)
       IN  /\ definitionsCache' = StoreResponse(definitionsCache, KeyOf(call),
                                                call.status, call.respEtag, definitions)
           /\ lastResponse' = MapSet(lastResponse, KeyOf(call),
                                     ResponseClass(definitionsCache, KeyOf(call),
                                                   call.status, call.respEtag))
           /\ Settle(c, call,
                     [threw |-> FALSE, error |-> NoError, definitions |-> definitions],
                     TRUE)
    /\ UNCHANGED << env, evaluationCache, evalWriter, started >>

\* lines 64-66: __resetDefinitionsCache() clears the Map.  It is synchronous:
\* a caller runs it between its own calls, possibly while another caller's
\* call is suspended.  No response governs an entry any more afterwards.
ResetDefinitionsCache(c) ==
    /\ c \in env.slots
    /\ calls[c].pc = "idle"
    /\ IF c = "s1" THEN TRUE ELSE calls["s1"].pc # "idle"
    /\ started < env.limit
    /\ started' = started + 1
    /\ definitionsCache' = EmptyMap
    /\ lastResponse' = EmptyMap
    /\ issued' = NoRequest
    /\ returned' = NoReturn
    /\ UNCHANGED << env, evaluationCache, calls, evalWriter >>

\* flag.ts lines 102-108: the await of line 65 rejected.
Catch(c) ==
    /\ calls[c].pc = "caught"
    /\ returned' = [Report("flag", c, calls[c]) EXCEPT
                       !.failure = calls[c].error,
                       !.threw = flagCatch(calls[c].error).threw,
                       !.error = flagCatch(calls[c].error).result.error,
                       !.result = flagCatch(calls[c].error).result]
    /\ calls' = [calls EXCEPT ![c] = IdleCall]
    /\ issued' = NoRequest
    /\ UNCHANGED << env, definitionsCache, evaluationCache, lastResponse,
                    evalWriter, started >>

\* flag.ts lines 71-108: the continuation of flag after its await.
Decide(c, evaluatorThrows) ==
    /\ calls[c].pc = "resume"
    /\ LET call == calls[c]
           seenEtag == CacheEtag(definitionsCache, KeyOf(call))
           seenDefs == CacheDefinitions(definitionsCache, KeyOf(call))
           out == flagEvaluate(evaluationCache, call.definitions, call.ctx,
                               seenEtag, seenDefs, evaluatorThrows)
           end == IF out.error = NoError THEN flagResult(out.toggles)
                  ELSE flagCatch(out.error)
       IN  /\ evaluatorThrows => out.evaluated
           /\ evaluationCache' = out.cache
           /\ evalWriter' = IF out.evaluated /\ out.error = NoError
                            THEN [written |-> TRUE, during |-> InFlight \ {c},
                                  ctx |-> call.ctx]
                            ELSE evalWriter
           /\ returned' =
                 [Report("flag", c, call) EXCEPT
                     !.failure = out.error,
                     !.definitions = call.definitions,
                     !.error = end.result.error,
                     !.threw = end.threw,
                     !.evaluated = out.evaluated,
                     !.seenEtag = seenEtag,
                     !.seenDefs = seenDefs,
                     !.evalBefore = evaluationCache,
                     !.storedCtx = evalWriter.ctx,
                     !.sequential = evalWriter.written /\ c \notin evalWriter.during,
                     !.stored = out.evaluated /\ out.error = NoError,
                     !.result = end.result]
    /\ calls' = [calls EXCEPT ![c] = IdleCall]
    /\ issued' = NoRequest
    /\ UNCHANGED << env, definitionsCache, lastResponse, started >>

Next ==
    \E c \in Slots :
        \/ \E s \in SourceNames, h \in ExplicitHeaders : StartGetDefinitions(c, s, h)
        \/ \E s \in SourceNames, x \in Contexts, h \in ExplicitHeaders :
               StartFlag(c, s, x, h)
        \/ FetchReject(c)
        \/ \E etag \in ResponseEtags : Respond304(c, etag)
        \/ \E response \in Responses : RespondBody(c, response)
        \/ JsonReject(c)
        \/ JsonResolve(c)
        \/ Catch(c)
        \/ \E t \in BOOLEAN : Decide(c, t)
        \/ ResetDefinitionsCache(c)

Spec == Init /\ [][Next]_vars
SpecSequential == InitSequential /\ [][Next]_vars
SpecSources == InitSources /\ [][Next]_vars
SpecSeeded == InitSeeded /\ [][Next]_vars

(***************************************************************************)
(* A server that stops changing.  One caller makes up to MaxHistoryCalls   *)
(* calls of any kind against a server that answers anything; from then on  *)
(* the server keeps one payload and one non-empty ETag, answers a matching *)
(* if-none-match with 304 and any other request with 200 and that ETag,    *)
(* and the caller makes flag calls with one context and no headers of its  *)
(* own, whose fetches succeed.                                             *)
(***************************************************************************)
ServerStates == { r \in Responses : ResponseOk(r.status) /\ r.etag # NoEtag }

InitQuiescent ==
    /\ \E h \in 0..MaxHistoryCalls, server \in ServerStates, x \in Contexts :
           env = [sources |-> SourcesWith(BaseConfig), names |-> {"A"},
                  contexts |-> Contexts, headers |-> ExplicitHeaders,
                  slots |-> {"s1"}, limit |-> h + MaxQuietCalls,
                  history |-> h, server |-> server, context |-> x]
    /\ definitionsCache = EmptyMap
    /\ evaluationCache = EmptyEvaluationCache
    /\ InitCalls

\* The call in flight, or the next one, belongs to the quiescent period.
Quiet == IF calls["s1"].pc = "idle" THEN started >= env.history
         ELSE started > env.history

\* The number of calls completed since the server stopped changing.
QuietCompleted ==
    IF calls["s1"].pc = "idle" THEN started - env.history
    ELSE started - env.history - 1

QuietStartFlag(c) ==
    /\ Quiet
    /\ StartFlag(c, "A", env.context, NoHeaders)

\* The quiescent server: 304 to a matching if-none-match, otherwise 200 with
\* its payload and its ETag.
ServerAnswer(c) ==
    /\ Quiet
    /\ calls[c].pc = "fetch"
    /\ IF calls[c].inm = env.server.etag
       THEN Respond304(c, env.server.etag)
       ELSE RespondBody(c, env.server)

NextQuiescent ==
    \E c \in Slots :
        \/ /\ ~Quiet
           /\ \E s \in SourceNames, h \in ExplicitHeaders :
                  StartGetDefinitions(c, s, h)
        \/ /\ ~Quiet
           /\ \E s \in SourceNames, x \in Contexts, h \in ExplicitHeaders :
                  StartFlag(c, s, x, h)
        \/ ~Quiet /\ FetchReject(c)
        \/ ~Quiet /\ \E etag \in ResponseEtags : Respond304(c, etag)
        \/ ~Quiet /\ \E response \in Responses : RespondBody(c, response)
        \/ ~Quiet /\ JsonReject(c)
        \/ JsonResolve(c)
        \/ ~Quiet /\ Catch(c)
        \/ ~Quiet /\ ResetDefinitionsCache(c)
        \/ \E t \in BOOLEAN : (Quiet => ~t) /\ Decide(c, t)
        \/ QuietStartFlag(c)
        \/ ServerAnswer(c)

SpecQuiescent == InitQuiescent /\ [][NextQuiescent]_vars

(***************************************************************************)
(* Properties of flag's error boundary.                                    *)
(***************************************************************************)
ErrorResult(error) == [enabled |-> FALSE, variant |-> EmptyVariant, error |-> error]

\* C1: flag never throws.  Whatever the definitions fetch did (transport
\* failure, 304 with nothing cached, body-parse failure) and whether or not
\* the evaluator threw, the call completes with a result value; when a step
\* failed the result is exactly {enabled: false, variant: empty, error: the
\* captured error}, and a call in which nothing failed carries no error.
FlagNeverThrows ==
    returned.op = "flag" =>
        /\ ~returned.threw
        /\ returned.failure # NoError => returned.result = ErrorResult(returned.failure)
        /\ returned.failure = NoError => returned.result.error = NoError

\* A flag call whose evaluator threw has just returned the error result.
FlagNeverThrowsWitness ==
    /\ returned.op = "flag"
    /\ returned.evaluated
    /\ returned.failure = EvaluationError
    /\ returned.result = ErrorResult(EvaluationError)

(***************************************************************************)
(* Properties of the conditional fetch protocol.                           *)
(***************************************************************************)
\* C2: when the last response a fetch for this cache key finished with was a
\* 2xx carrying ETag e, and the caller supplies no if-none-match header of
\* its own, the request carries if-none-match = e.
EtagReusedOnNextRequest ==
    (issued.slot # "" /\ issued.prior.class = "etag" /\ issued.explicitInm = "")
        => issued.inm = issued.prior.etag

\* The second of two sequential fetches has just been sent with the first's ETag.
EtagReusedOnNextRequestWitness ==
    /\ issued.slot # ""
    /\ issued.prior.class = "etag"
    /\ issued.explicitInm = ""
    /\ issued.inm = issued.prior.etag
    /\ issued.inm # ""
    /\ InFlight = {issued.slot}

\* C3: a fetch that receives a 304 and found a cached payload under its cache
\* key returns that very payload (the same object, which a 2xx response to a
\* fetch of the same source stored earlier), and the body is never parsed.
NotModifiedReturnsCachedPayload ==
    (returned.op = "getDefinitions" /\ returned.status = 304
                                    /\ returned.cached.definitions # NoDefs)
        => /\ ~returned.threw
           /\ returned.definitions = returned.cached.definitions
           /\ returned.definitions.origin = returned.src
           /\ ~returned.parsed

\* A fetch has just answered a 304 from its cache entry.
NotModifiedReturnsCachedPayloadWitness ==
    /\ returned.op = "getDefinitions"
    /\ returned.status = 304
    /\ returned.cached.definitions # NoDefs
    /\ returned.definitions.ref = returned.cached.definitions.ref
    /\ ~returned.parsed

\* C4: a fetch that receives a 304 and found no cached payload under its
\* cache key fails with the stale-cache error, returns no payload, and leaves
\* the definitions cache as it was: without an entry for the key, unless a
\* call that overlapped this one stored one while the request was in flight.
NotModifiedWithoutCacheFails ==
    (returned.op = "getDefinitions" /\ returned.status = 304
                                    /\ returned.cached.definitions = NoDefs)
        => /\ returned.threw
           /\ returned.error = StaleCacheError
           /\ returned.definitions = NoDefs
           /\ definitionsCache = returned.cacheBefore
           /\ returned.cacheKey \notin DOMAIN returned.cacheBefore
                 => returned.cacheKey \notin DOMAIN definitionsCache

\* A fetch on an empty cache has just failed on a 304.
NotModifiedWithoutCacheFailsWitness ==
    /\ returned.op = "getDefinitions"
    /\ returned.status = 304
    /\ returned.cached = NoEntry
    /\ returned.error = StaleCacheError
    /\ returned.cacheKey \notin DOMAIN definitionsCache

\* C5: a parsed 2xx response without an ETag leaves no entry under its cache
\* key, and a fetch that follows such a response, absent a caller-supplied
\* if-none-match header, is sent without one.
MissingEtagEvicts ==
    /\ (returned.op = "getDefinitions" /\ returned.parsed /\ ~returned.threw
           /\ ResponseOk(returned.status) /\ returned.respEtag = NoEtag)
          => returned.cacheKey \notin DOMAIN definitionsCache
    /\ (issued.slot # "" /\ issued.prior.class = "noetag" /\ issued.explicitInm = "")
          => issued.inm = ""

\* A fetch has just been sent after a response without ETag removed an entry.
MissingEtagEvictsWitness ==
    /\ issued.slot # ""
    /\ issued.prior.class = "noetag"
    /\ issued.prior.evicted
    /\ issued.explicitInm = ""
    /\ issued.inm = ""

(***************************************************************************)
(* Properties of the reuse decision.                                       *)
(***************************************************************************)
\* C6: a flag call that finds the evaluation cache populated by an earlier
\* flag call, passes a context with the same serialized key and observes the
\* definitions ETag the evaluation cache recorded does not invoke the
\* evaluator (so two such calls invoke it once in total, though each performs
\* its fetch); it returns the result derived from the stored toggle list and
\* leaves the evaluation cache as it was.
UnchangedEtagReusesEvaluation ==
    (returned.op = "flag" /\ returned.evalBefore.toggles # NoToggles
        /\ returned.evalBefore.contextKey = serializeContext(returned.ctx)
        /\ returned.evalBefore.etag # NoEtag
        /\ returned.seenEtag = returned.evalBefore.etag)
        => /\ ~returned.evaluated
           /\ ~returned.threw
           /\ returned.result = flagResult(returned.evalBefore.toggles).result
           /\ evaluationCache = returned.evalBefore

\* The second of two sequential flag calls has just reused the first's toggles.
UnchangedEtagReusesEvaluationWitness ==
    /\ returned.op = "flag"
    /\ returned.sequential
    /\ started = 2
    /\ returned.storedCtx = returned.ctx
    /\ returned.evalBefore.etag # NoEtag
    /\ returned.seenEtag = returned.evalBefore.etag
    /\ ~returned.evaluated
    /\ returned.result.variant = returned.evalBefore.toggles

\* C7: a flag call that finds the evaluation cache populated and observes a
\* definitions ETag different from the one the evaluation cache recorded
\* invokes the evaluator again, with the payload its own fetch returned.
ChangedEtagReevaluates ==
    (returned.op = "flag" /\ returned.evalBefore.toggles # NoToggles
        /\ returned.seenEtag # returned.evalBefore.etag)
        => /\ returned.evaluated
           /\ returned.failure = NoError
                => /\ evaluationCache.toggles =
                         evaluateFlags(returned.definitions, returned.ctx)
                   /\ returned.result =
                         flagResult(evaluateFlags(returned.definitions, returned.ctx)).result

\* With a fixed context, the call after the ETag changed has just re-evaluated
\* with the new payload.
ChangedEtagReevaluatesWitness ==
    /\ returned.op = "flag"
    /\ returned.sequential
    /\ returned.storedCtx = returned.ctx
    /\ returned.evalBefore.etag = "etag-1"
    /\ returned.seenEtag = "etag-2"
    /\ returned.evaluated
    /\ returned.failure = NoError
    /\ returned.definitions = returned.seenDefs
    /\ evaluationCache.toggles.from = returned.definitions
    /\ evaluationCache.toggles.from # returned.evalBefore.toggles.from

\* C8: a flag call that finds the evaluation cache populated by a call whose
\* context differs from its own, in a field value or only in the insertion
\* order of the fields, invokes the evaluator again, even when the
\* definitions are unchanged.
ChangedContextReevaluates ==
    (returned.op = "flag" /\ returned.evalBefore.toggles # NoToggles
        /\ returned.storedCtx # returned.ctx)
        => returned.evaluated

\* A call whose context has the stored fields in another order has just
\* re-evaluated on unchanged definitions.
ChangedContextReevaluatesWitness ==
    /\ returned.op = "flag"
    /\ returned.sequential
    /\ returned.evalBefore.toggles # NoToggles
    /\ returned.storedCtx # returned.ctx
    /\ Fields(returned.storedCtx) = Fields(returned.ctx)
    /\ returned.evalBefore.etag # NoEtag
    /\ returned.seenEtag = returned.evalBefore.etag
    /\ returned.evaluated

\* C9: when the evaluation cache and the definitions cache do not both carry
\* an ETag, a flag call that finds toggles stored under its context key
\* reuses them exactly when the two caches hold the same payload object;
\* an object of equal content but another identity makes it evaluate again.
NoEtagReusesByReference ==
    (returned.op = "flag" /\ returned.evalBefore.toggles # NoToggles
        /\ returned.evalBefore.contextKey = serializeContext(returned.ctx)
        /\ ~(returned.evalBefore.etag # NoEtag /\ returned.seenEtag # NoEtag))
        => (returned.evaluated
              <=> returned.evalBefore.definitions.ref # returned.seenDefs.ref)

\* Without ETags, the second of two sequential flag calls has just reused the
\* first's toggles because both caches hold the same payload object.
NoEtagReusesByReferenceWitness ==
    /\ returned.op = "flag"
    /\ returned.sequential
    /\ returned.evalBefore.etag = NoEtag
    /\ returned.seenEtag = NoEtag
    /\ returned.seenDefs # NoDefs
    /\ returned.evalBefore.definitions.ref = returned.seenDefs.ref
    /\ ~returned.evaluated

(***************************************************************************)
(* Properties of the cache key.                                            *)
(***************************************************************************)
AllConfigs == {BaseConfig} \cup OtherConfigs
KeyTable == [cfg \in AllConfigs |-> CacheKeyOf(cfg)]
KeysSeparateIdentities ==
    \A a, b \in AllConfigs : Identity(a) # Identity(b) => KeyTable[a] # KeyTable[b]

\* C10: configurations whose identities (url, authorization, instance id,
\* application name) differ have different cache keys; every entry holds a
\* payload served to the identity it is keyed by; a fetch reads (for its
\* if-none-match header and for its answer to a 304) only an entry of its
\* own identity, and leaves the entries of every other identity as they were.
OneEntryPerIdentity ==
    /\ KeysSeparateIdentities
    /\ \A k \in DOMAIN definitionsCache : \E s \in env.names :
           /\ k = KeyTable[env.sources[s]]
           /\ definitionsCache[k].definitions.origin = s
    /\ (issued.slot # "" /\ issued.cached # NoEntry)
          => issued.cached.definitions.origin = issued.src
    /\ returned.op = "getDefinitions"
          => /\ returned.definitions # NoDefs
                  => returned.definitions.origin = returned.src
             /\ \A k \in DOMAIN returned.cacheBefore :
                   returned.cacheBefore[k].definitions.origin # returned.src
                      => /\ k \in DOMAIN definitionsCache
                         /\ definitionsCache[k] = returned.cacheBefore[k]

\* A fetch with another credential for the same URL has just stored its
\* entry next to the first source's entry, which holds the same ETag.
OneEntryPerIdentityWitness ==
    /\ env.sources["B"].url = BaseConfig.url
    /\ env.sources["B"].token = "token-2"
    /\ returned.op = "getDefinitions"
    /\ returned.src = "B"
    /\ returned.respEtag # NoEtag
    /\ Cardinality(DOMAIN definitionsCache) = 2
    /\ \A k \in DOMAIN definitionsCache : definitionsCache[k].etag = returned.respEtag
    /\ Lookup(definitionsCache, CacheKeyOf(BaseConfig)).definitions.origin = "A"

OwnEtagCompared ==
    (returned.op = "flag" /\ returned.definitions # NoDefs
        /\ ResponseOk(returned.definitions.status))
        => /\ returned.seenEtag = returned.definitions.tag
           /\ returned.seenEtag # NoEtag => returned.seenDefs = returned.definitions

(***************************************************************************)
(* The reuse decision as a whole.                                          *)
(***************************************************************************)
\* C13: a flag call whose fetch succeeded reuses the stored toggle list if
\* and only if the evaluation cache holds a toggle list, its context key is
\* the serialization of the call's context, and the freshness signal is true:
\* equality of the etags when the evaluation cache and the definitions cache
\* both carry one, otherwise identity of the payload objects they hold.  In
\* every other case the evaluator is invoked with the payload the call's
\* fetch returned and the call's context.
ReuseIffAllThree ==
    (returned.op = "flag" /\ returned.definitions # NoDefs)
        => LET before == returned.evalBefore
               fresh == IF before.etag # NoEtag /\ returned.seenEtag # NoEtag
                        THEN before.etag = returned.seenEtag
                        ELSE before.definitions.ref = returned.seenDefs.ref
               reuse == /\ before.toggles # NoToggles
                        /\ before.contextKey = Stringify(returned.ctx)
                        /\ fresh
           IN  /\ returned.evaluated <=> ~reuse
               /\ reuse => /\ returned.result.variant = before.toggles
                           /\ evaluationCache = before
               /\ (~reuse /\ returned.failure = NoError)
                     => /\ evaluationCache.toggles =
                              evaluateFlags(returned.definitions, returned.ctx)
                        /\ returned.result.variant = evaluationCache.toggles

\* A flag call has just reused the toggles because the etags are equal,
\* although the definitions cache holds a newer payload object.
ReuseIffAllThreeWitness ==
    /\ returned.op = "flag"
    /\ ~returned.evaluated
    /\ returned.evalBefore.etag # NoEtag
    /\ returned.evalBefore.etag = returned.seenEtag
    /\ returned.evalBefore.definitions.ref # returned.seenDefs.ref
    /\ returned.result.variant = returned.evalBefore.toggles

(***************************************************************************)
(* Frame properties.                                                       *)
(***************************************************************************)
\* The values a miss writes: the evaluator's toggle list, the serialized
\* context, the current definitions reference and the current etag.
MissValues(report) ==
    [toggles |-> evaluateFlags(report.definitions, report.ctx),
     contextKey |-> Stringify(report.ctx),
     definitions |-> IF report.seenDefs # NoDefs THEN report.seenDefs
                     ELSE report.definitions,
     etag |-> report.seenEtag]

\* C14: every step leaves the four fields of the evaluation cache exactly as
\* they were, or is the end of a flag call that evaluated successfully and
\* replaces all four by that call's miss values; a flag call that reused,
\* whose fetch failed or whose evaluator threw leaves them as they were.
EvaluationCacheAllOrNothing ==
    [][ /\ \/ evaluationCache' = evaluationCache
           \/ /\ returned'.op = "flag"
              /\ returned'.stored
              /\ evaluationCache' = MissValues(returned')
        /\ (returned'.op = "flag" /\ (returned'.failure # NoError \/ ~returned'.evaluated))
              => evaluationCache' = evaluationCache ]_vars

\* A flag call has just replaced all four fields of a populated cache.
EvaluationCacheAllOrNothingWitness ==
    /\ returned.op = "flag"
    /\ returned.stored
    /\ returned.evalBefore.toggles # NoToggles
    /\ evaluationCache.toggles # returned.evalBefore.toggles
    /\ evaluationCache.contextKey # returned.evalBefore.contextKey
    /\ evaluationCache.definitions # returned.evalBefore.definitions
    /\ evaluationCache.etag # returned.evalBefore.etag

\* C15: a definitions fetch changes the definitions cache only when it
\* parsed a 2xx response: a 304 (whatever its ETag header), a response with
\* another status, a transport failure and a parse failure leave every entry
\* exactly as it was; a parsed response that is neither 2xx nor 304 is still
\* returned to the caller.
OnlySuccessChangesEntry ==
    returned.op = "getDefinitions"
        => /\ ~(returned.parsed /\ ~returned.threw /\ ResponseOk(returned.status))
                => definitionsCache = returned.cacheBefore
           /\ (returned.parsed /\ ~returned.threw /\ ~ResponseOk(returned.status))
                => /\ returned.definitions # NoDefs
                   /\ returned.definitions.status = returned.status
                   /\ returned.error = NoError

\* A 304 whose ETag header differs from the cached etag has just left the
\* entry as it was.
OnlySuccessChangesEntryWitness ==
    /\ returned.op = "getDefinitions"
    /\ returned.status = 304
    /\ returned.cached.etag # NoEtag
    /\ returned.respEtag # NoEtag
    /\ returned.respEtag # returned.cached.etag
    /\ Lookup(definitionsCache, returned.cacheKey) = returned.cached

\* C16: every fetch issues its own request, and a fetch that parsed a 2xx
\* response with an ETag leaves under its key exactly the etag and the payload
\* of that response, whatever the entry held and whichever request was issued
\* first; so after two overlapping fetches the entry is the one of the fetch
\* that completed last.
LastWriterWins ==
    (returned.op = "getDefinitions" /\ returned.parsed /\ ~returned.threw
        /\ ResponseOk(returned.status) /\ returned.respEtag # NoEtag)
        => /\ returned.cacheKey \in DOMAIN definitionsCache
           /\ definitionsCache[returned.cacheKey] =
                 [etag |-> returned.respEtag, definitions |-> returned.definitions]
           /\ returned.definitions.tag = returned.respEtag

\* Of two overlapping fetches that both found the cache empty, the one issued
\* first has just completed last and replaced the other's entry.
LastWriterWinsWitness ==
    /\ started = 2
    /\ returned.op = "getDefinitions"
    /\ returned.slot = "s1"
    /\ InFlight \subseteq {"s1"}
    /\ returned.cached = NoEntry
    /\ returned.cacheKey \in DOMAIN returned.cacheBefore
    /\ returned.cacheBefore[returned.cacheKey].etag # returned.respEtag
    /\ returned.respEtag # NoEtag
    /\ definitionsCache[returned.cacheKey].etag = returned.respEtag
    /\ definitionsCache[returned.cacheKey].definitions = returned.definitions

\* C17: a fetch whose request got no response (transport failure) fails with
\* the transport's error, unchanged; the call issues no further request (it
\* has ended, or, inside flag, sits in flag's catch with that error); and the
\* failing fetch leaves the definitions cache exactly as it was.
TransportFailurePropagates ==
    (returned.op = "getDefinitions" /\ returned.status = 0)
        => /\ returned.threw
           /\ returned.error = TransportError
           /\ returned.definitions = NoDefs
           /\ definitionsCache = returned.cacheBefore
           /\ calls[returned.slot].pc \in {"idle", "caught"}
           /\ calls[returned.slot].pc = "caught"
                 => calls[returned.slot].error = TransportError

\* A conditional request of a direct call has just failed in transport and
\* the entry it was built from is still there.
TransportFailurePropagatesWitness ==
    /\ returned.op = "getDefinitions"
    /\ returned.kind = "getDefinitions"
    /\ returned.status = 0
    /\ returned.error = TransportError
    /\ returned.inm # ""
    /\ returned.cached.etag = returned.inm
    /\ Lookup(definitionsCache, returned.cacheKey) = returned.cached
    /\ calls[returned.slot].pc = "idle"

(***************************************************************************)
(* Invariants of the caches.                                               *)
(***************************************************************************)
\* C18: every entry of the definitions cache has a non-empty etag and a
\* payload, and the two were delivered together, by one 2xx response to a
\* fetch for the entry's key.
EntryIsOneResponse ==
    \A k \in DOMAIN definitionsCache :
        LET entry == definitionsCache[k]
        IN  /\ entry.etag # NoEtag
            /\ entry.definitions # NoDefs
            /\ entry.definitions.tag = entry.etag
            /\ ResponseOk(entry.definitions.status)
            /\ entry.definitions.origin \in env.names
            /\ k = KeyTable[env.sources[entry.definitions.origin]]

\* A fetch has just stored its response while an overlapping fetch for the
\* same key holds a response with another ETag, not yet parsed.
EntryIsOneResponseWitness ==
    /\ returned.op = "getDefinitions"
    /\ returned.cacheKey \in DOMAIN definitionsCache
    /\ definitionsCache[returned.cacheKey].definitions = returned.definitions
    /\ definitionsCache[returned.cacheKey].etag = returned.respEtag
    /\ \E c \in Slots : /\ calls[c].pc = "json"
                          /\ calls[c].cacheKey = returned.cacheKey
                          /\ calls[c].respEtag # NoEtag
                          /\ calls[c].respEtag # returned.respEtag

\* C19 as stated: once a flag call has written the evaluation cache, its
\* toggle list is the evaluator's output for the payload in its definitions
\* field and the context of its contextKey, and its etag is the ETag that was
\* delivered with that payload.
EvaluationCacheConsistent ==
    evalWriter.written
        => /\ evaluationCache.contextKey = Stringify(evalWriter.ctx)
           /\ evaluationCache.toggles =
                 evaluateFlags(evaluationCache.definitions, evalWriter.ctx)
           /\ evaluationCache.etag = evaluationCache.definitions.tag

\* C20 as stated: with two different logical sources on the default caches
\* and the same context, a flag call that returns a result never returns one
\* taken from a toggle list evaluated from the other source's payload, also
\* when both servers hand out the same ETag string.
NoCrossSourceToggles ==
    (returned.op = "flag" /\ returned.failure = NoError)
        => returned.result.variant.from.origin = returned.src

\* C21 as stated: once the server has stopped changing and flag calls with
\* one context run one after another with succeeding fetches, then after at
\* most one completed call the definitions cache holds the server's current
\* etag and payload, every later request carries that etag, and every later
\* call reuses the stored toggles (the evaluator runs at most in the first
\* call) and returns the result for the server's current payload.
IsServerPayload(definitions) ==
    /\ definitions.ver = env.server.ver
    /\ definitions.tag = env.server.etag
    /\ ResponseOk(definitions.status)
    /\ definitions.origin = "A"
ConvergesAfterQuiescence ==
    (Quiet /\ QuietCompleted >= 1) =>
        /\ LET entry == Lookup(definitionsCache, CacheKeyOf(BaseConfig))
           IN  entry.etag = env.server.etag /\ IsServerPayload(entry.definitions)
        /\ issued.slot # "" => issued.inm = env.server.etag
        /\ (returned.op = "flag" /\ QuietCompleted >= 2) =>
               /\ ~returned.evaluated
               /\ returned.failure = NoError
               /\ IsServerPayload(returned.result.variant.from)
               /\ returned.result =
                     flagResult(evaluateFlags(returned.result.variant.from,
                                              env.context)).result

=============================================================================
